---- MODULE Spec2Model ----
(***************************************************************************)
(* Model of the analysis functions of app.py (Legacy Code Reengineering    *)
(* Assistant): parse_python_functions, find_variable_usage,                *)
(* find_long_functions, build_call_graph and execute_code_snippet.         *)
(*                                                                         *)
(* A source text is a sequence of top-level items, each one a fixed piece  *)
(* of Python text (given next to its tree in Stmt).  ast_parse lays the    *)
(* items out on consecutive lines and builds the syntax tree that          *)
(* ast.parse builds for that text, or raises what ast.parse raises.        *)
(***************************************************************************)
EXTENDS Integers, Sequences, FiniteSets, TLC

VARIABLES
    source,            \* the text handed to the analyses (app.py: code)
    call,              \* the last completed call of an analysis and what it gave
    frames,            \* the locals of the call in progress of each analysis
    sys_stdout,        \* sys.stdout, one per process
    stdout_at_entry,   \* history: sys.stdout when execute_code_snippet was entered
    pc,                \* where execute_code_snippet stands
    snippet,           \* the statements of the snippet being executed
    ip,                \* the statement of the snippet that runs next
    old_stdout,        \* execute_code_snippet: old_stdout
    redirected_output, \* execute_code_snippet: what the StringIO holds
    output,            \* execute_code_snippet: output
    raised             \* the exception in flight in execute_code_snippet

(***************************************************************************)
(* Bounds of the model.                                                    *)
(***************************************************************************)
MaxItems == 2        \* generated sources have at most this many items
MaxThreshold == 10   \* length_threshold ranges over 0..MaxThreshold
MaxSnippet == 3      \* a snippet has at most this many statements
MaxStepThreshold == 1 \* thresholds of the calls that run step by step

(***************************************************************************)
(* Syntax-tree nodes.  kids are the child nodes that precede the statement *)
(* list in the node's _fields order (arguments, test, func, targets, ...), *)
(* body is the statement list.  The expression-context nodes (Load, Store) *)
(* are left out: no analysis looks at them and they have no children.      *)
(***************************************************************************)
Node(kind, name, lineno, end_lineno, kids, body) ==
    [kind |-> kind, name |-> name, lineno |-> lineno,
     end_lineno |-> end_lineno, kids |-> kids, body |-> body]

Name(id, ln) == Node("Name", id, ln, ln, <<>>, <<>>)
Constant(text, ln) == Node("Constant", text, ln, ln, <<>>, <<>>)
Attribute(value, attr, ln) == Node("Attribute", attr, ln, ln, <<value>>, <<>>)
Call(func, args, ln) == Node("Call", "", ln, ln, <<func>> \o args, <<>>)
BinOp(left, right, ln) == Node("BinOp", "", ln, ln, <<left, right>>, <<>>)
Expr(value, ln) == Node("Expr", "", ln, ln, <<value>>, <<>>)
Assign(target, value, ln) == Node("Assign", "", ln, ln, <<target, value>>, <<>>)
Return(value, ln) == Node("Return", "", ln, ln, <<value>>, <<>>)
Pass(ln) == Node("Pass", "", ln, ln, <<>>, <<>>)
If(test, body, ln, end) == Node("If", "", ln, end, <<test>>, body)
Arg(id, ln) == Node("arg", id, ln, ln, <<>>, <<>>)
Arguments(args) == Node("arguments", "", 0, 0, args, <<>>)
FunctionDef(id, args, body, ln, end) ==
    Node("FunctionDef", id, ln, end, <<Arguments(args)>>, body)
AsyncFunctionDef(id, args, body, ln, end) ==
    Node("AsyncFunctionDef", id, ln, end, <<Arguments(args)>>, body)
Module(body) == Node("Module", "", 0, 0, <<>>, body)

\* ast.iter_child_nodes: the child nodes in _fields order.
IterChildNodes(node) == node.kids \o node.body

(***************************************************************************)
(* The items a source is made of, with the text of each.                   *)
(***************************************************************************)
GoodItems ==
    {"def_f", "def_g", "def_h_rec", "def_h", "nested", "async_k",
     "method_call", "assign_x", "print_x", "incr_x", "upper_X", "long_w",
     "blank"}
\* "big" and "big_if" are used by the named texts (Scenarios) only
\* item -> the exception ast.parse raises on a text that contains it
BadItems == {"syntax_error", "bad_indent", "deep_nesting"}

ParseFailure(item) ==
    CASE item = "syntax_error" -> "SyntaxError"        \* def (
      [] item = "bad_indent"   -> "IndentationError"   \*  x = 1 / <deeper> y
      [] item = "deep_nesting" -> "MemoryError"        \* -----...-1 (200000 signs)

\* the number of lines of an item's text
Height(item) ==
    CASE item \in {"def_f", "assign_x", "print_x", "incr_x", "upper_X", "blank"} -> 1
      [] item \in {"def_h_rec", "def_h", "async_k"} -> 2
      [] item \in {"def_g", "method_call"} -> 3
      [] item = "nested" -> 4
      [] item = "long_w" -> 5
      [] item \in {"big", "big_if"} -> 11
      [] OTHER -> 1

\* x = 1 on each of the lines first..last
RECURSIVE AssignRun(_, _)
AssignRun(first, last) ==
    IF first > last THEN <<>>
    ELSE <<Assign(Name("x", first), Constant("1", first), first)>>
         \o AssignRun(first + 1, last)

\* the statement node of an item whose text starts on line ln
Stmt(item, ln) ==
    CASE item = "def_f" ->
           \* def f(): pass
           FunctionDef("f", <<>>, <<Pass(ln)>>, ln, ln)
      [] item = "def_g" ->
           \* def g():
           \*     f()
           \*     f()
           FunctionDef("g", <<>>,
               <<Expr(Call(Name("f", ln + 1), <<>>, ln + 1), ln + 1),
                 Expr(Call(Name("f", ln + 2), <<>>, ln + 2), ln + 2)>>,
               ln, ln + 2)
      [] item = "def_h_rec" ->
           \* def h(n):
           \*     return h(n)
           FunctionDef("h", <<Arg("n", ln)>>,
               <<Return(Call(Name("h", ln + 1), <<Name("n", ln + 1)>>, ln + 1),
                        ln + 1)>>,
               ln, ln + 1)
      [] item = "def_h" ->
           \* def h():
           \*     pass
           FunctionDef("h", <<>>, <<Pass(ln + 1)>>, ln, ln + 1)
      [] item = "nested" ->
           \* def a():
           \*     def b():
           \*         g()
           \*     return b
           FunctionDef("a", <<>>,
               <<FunctionDef("b", <<>>,
                     <<Expr(Call(Name("g", ln + 2), <<>>, ln + 2), ln + 2)>>,
                     ln + 1, ln + 2),
                 Return(Name("b", ln + 3), ln + 3)>>,
               ln, ln + 3)
      [] item = "async_k" ->
           \* async def k():
           \*     f()
           AsyncFunctionDef("k", <<>>,
               <<Expr(Call(Name("f", ln + 1), <<>>, ln + 1), ln + 1)>>,
               ln, ln + 1)
      [] item = "method_call" ->
           \* def m(x):
           \*     obj.f()
           \*     obj.x = "x"
           FunctionDef("m", <<Arg("x", ln)>>,
               <<Expr(Call(Attribute(Name("obj", ln + 1), "f", ln + 1), <<>>,
                           ln + 1), ln + 1),
                 Assign(Attribute(Name("obj", ln + 2), "x", ln + 2),
                        Constant("x", ln + 2), ln + 2)>>,
               ln, ln + 2)
      [] item = "assign_x" ->
           \* x = 1
           Assign(Name("x", ln), Constant("1", ln), ln)
      [] item = "print_x" ->
           \* print(x)
           Expr(Call(Name("print", ln), <<Name("x", ln)>>, ln), ln)
      [] item = "incr_x" ->
           \* x = x + 1
           Assign(Name("x", ln),
                  BinOp(Name("x", ln), Constant("1", ln), ln), ln)
      [] item = "upper_X" ->
           \* X = x
           Assign(Name("X", ln), Name("x", ln), ln)
      [] item = "long_w" ->
           \* def w():
           \*     x = 1
           \*     if x:
           \*         x = 1
           \*         x = 1
           FunctionDef("w", <<>>,
               <<Assign(Name("x", ln + 1), Constant("1", ln + 1), ln + 1),
                 If(Name("x", ln + 2), AssignRun(ln + 3, ln + 4),
                    ln + 2, ln + 4)>>,
               ln, ln + 4)
      [] item = "big" ->
           \* def big():
           \*     x = 1          (ten times, one per line)
           FunctionDef("big", <<>>, AssignRun(ln + 1, ln + 10), ln, ln + 10)
      [] item = "big_if" ->
           \* def big_if():
           \*     x = 1
           \*     if x:
           \*         x = 1      (eight times, one per line)
           FunctionDef("big_if", <<>>,
               <<Assign(Name("x", ln + 1), Constant("1", ln + 1), ln + 1),
                 If(Name("x", ln + 2), AssignRun(ln + 3, ln + 10),
                    ln + 2, ln + 10)>>,
               ln, ln + 10)

\* the statements of a text whose first item starts on line ln
RECURSIVE Layout(_, _)
Layout(text, ln) ==
    IF Len(text) = 0 THEN <<>>
    ELSE (IF Head(text) = "blank" THEN <<>> ELSE <<Stmt(Head(text), ln)>>)
         \o Layout(Tail(text), ln + Height(Head(text)))

(***************************************************************************)
(* What a Python call gives: a returned value or a raised exception.       *)
(***************************************************************************)
Ret(v) == [raised |-> "none", value |-> v]
Raise(e) == [raised |-> e, value |-> <<>>]

\* the classes of an exception, itself first (its __mro__ without object)
Mro(exc) ==
    CASE exc = "IndentationError" ->
           {"IndentationError", "SyntaxError", "Exception", "BaseException"}
      [] exc \in {"SyntaxError", "MemoryError", "ValueError", "RuntimeError"} ->
           {exc, "Exception", "BaseException"}
      [] exc \in {"SystemExit", "KeyboardInterrupt"} -> {exc, "BaseException"}
      [] OTHER -> {exc}

\* ast.parse: the tree of the text, or the exception of its first bad item
ast_parse(source_code) ==
    LET bad == {i \in 1..Len(source_code) : source_code[i] \in BadItems} IN
    IF bad # {}
    THEN Raise(ParseFailure(
             source_code[CHOOSE i \in bad : \A j \in bad : i <= j]))
    ELSE Ret(Module(Layout(source_code, 1)))

\* a walk that pops the deque from the end it pushes to (depth first)
RECURSIVE WalkFrom(_)
WalkFromLifo(todo) ==
    IF Len(todo) = 0 THEN <<>>
    ELSE <<Head(todo)>> \o WalkFrom(IterChildNodes(Head(todo)) \o Tail(todo))

\* ast.walk: a deque fed with the children of each node popped from its left
WalkFrom(todo) ==
    IF Len(todo) = 0 THEN <<>>
    ELSE <<Head(todo)>> \o WalkFrom(Tail(todo) \o IterChildNodes(Head(todo)))
ast_walk(node) == WalkFrom(<<node>>)

\* a handler that takes syntax errors only
except_SyntaxError(exc) == "SyntaxError" \in Mro(exc)

\* "except Exception as e": the handler takes the exception or lets it pass
except_Exception(exc) == "Exception" \in Mro(exc)

\* isinstance(node, ast.FunctionDef), isinstance(node, ast.Name), ...
isinstance(node, cls) == node.kind = cls

\* sorted(set(lines))
RECURSIVE SortedSet(_)
SortedSet(S) ==
    IF S = {} THEN <<>>
    ELSE LET m == CHOOSE x \in S : \A y \in S : x <= y
         IN <<m>> \o SortedSet(S \ {m})
Elems(s) == {s[i] : i \in 1..Len(s)}
sorted_set(lines) == SortedSet(Elems(lines))

(***************************************************************************)
(* parse_python_functions                                                  *)
(***************************************************************************)
\* one turn of the comprehension: "node.name for node ... if isinstance(...)"
CatalogVisit(funcs, node) ==
    IF isinstance(node, "FunctionDef") THEN Append(funcs, node.name) ELSE funcs

RECURSIVE CatalogLoop(_, _)
CatalogLoop(funcs, nodes) ==
    IF Len(nodes) = 0 THEN funcs
    ELSE CatalogLoop(CatalogVisit(funcs, Head(nodes)), Tail(nodes))

parse_python_functions(source_code) ==
    LET tree == ast_parse(source_code) IN
    IF tree.raised = "none" THEN Ret(CatalogLoop(<<>>, ast_walk(tree.value)))
    ELSE IF except_Exception(tree.raised) THEN Ret(<<>>)
    ELSE Raise(tree.raised)

(***************************************************************************)
(* find_variable_usage                                                     *)
(***************************************************************************)
\* a match on the text alone, whatever the node is
UsageVisitAnyNode(lines, node, var_name) ==
    IF node.name = var_name THEN Append(lines, node.lineno) ELSE lines

\* one turn of the loop over ast.walk(tree)
UsageVisit(lines, node, var_name) ==
    IF isinstance(node, "Name") /\ node.name = var_name
    THEN Append(lines, node.lineno)
    ELSE lines

RECURSIVE UsageLoop(_, _, _)
UsageLoop(lines, nodes, var_name) ==
    IF Len(nodes) = 0 THEN lines
    ELSE UsageLoop(UsageVisit(lines, Head(nodes), var_name), Tail(nodes), var_name)

find_variable_usage(source_code, var_name) ==
    LET tree == ast_parse(source_code) IN
    IF tree.raised = "none"
    THEN Ret(sorted_set(UsageLoop(<<>>, ast_walk(tree.value), var_name)))
    ELSE IF except_Exception(tree.raised) THEN Ret(<<>>)
    ELSE Raise(tree.raised)

(***************************************************************************)
(* find_long_functions                                                     *)
(***************************************************************************)
\* node.body[-1].lineno - node.body[0].lineno + 1
FuncLen(node) == node.body[Len(node.body)].lineno - node.body[1].lineno + 1

\* a comparison that also takes the threshold itself
IsLongOrEqual(func_len, length_threshold) == func_len >= length_threshold

\* func_len > length_threshold
IsLong(func_len, length_threshold) == func_len > length_threshold

\* one turn of the loop over ast.walk(tree)
LongVisit(long_funcs, node, length_threshold) ==
    IF isinstance(node, "FunctionDef") /\ Len(node.body) > 0
       /\ IsLong(FuncLen(node), length_threshold)
    THEN Append(long_funcs, <<node.name, FuncLen(node)>>)
    ELSE long_funcs

RECURSIVE LongLoop(_, _, _)
LongLoop(long_funcs, nodes, length_threshold) ==
    IF Len(nodes) = 0 THEN long_funcs
    ELSE LongLoop(LongVisit(long_funcs, Head(nodes), length_threshold),
                  Tail(nodes), length_threshold)

find_long_functions(source_code, length_threshold) ==
    LET tree == ast_parse(source_code) IN
    IF tree.raised = "none"
    THEN Ret(LongLoop(<<>>, ast_walk(tree.value), length_threshold))
    ELSE IF except_Exception(tree.raised) THEN Ret(<<>>)
    ELSE Raise(tree.raised)

(***************************************************************************)
(* build_call_graph                                                        *)
(***************************************************************************)
\* nx.DiGraph(), graph.add_node, graph.add_edge (which adds both endpoints)
DiGraph == [nodes |-> {}, edges |-> {}]
add_node(graph, n) == [graph EXCEPT !.nodes = @ \cup {n}]
add_edge(graph, u, v) ==
    [nodes |-> graph.nodes \cup {u, v}, edges |-> graph.edges \cup {<<u, v>>}]

\* a dict: its keys in insertion order and the value of each key
EmptyDict == [keys |-> <<>>, val |-> <<>>]
DictHas(d, k) == \E i \in 1..Len(d.keys) : d.keys[i] = k
DictGet(d, k) == d.val[CHOOSE i \in 1..Len(d.keys) : d.keys[i] = k]
\* d[k] = v: a key already there keeps its place and takes the new value
DictSet(d, k, v) ==
    IF DictHas(d, k)
    THEN [d EXCEPT !.val[CHOOSE i \in 1..Len(d.keys) : d.keys[i] = k] = v]
    ELSE [keys |-> Append(d.keys, k), val |-> Append(d.val, v)]

\* one turn of "{node.name: node for node in ast.walk(tree) if ...}"
FuncsVisit(funcs, node) ==
    IF isinstance(node, "FunctionDef") THEN DictSet(funcs, node.name, node)
    ELSE funcs

RECURSIVE FuncsLoop(_, _)
FuncsLoop(funcs, nodes) ==
    IF Len(nodes) = 0 THEN funcs
    ELSE FuncsLoop(FuncsVisit(funcs, Head(nodes)), Tail(nodes))

\* a test that lets every callee through
IsAnyCallee(called_func, funcs) == TRUE

\* "if called_func in funcs"
IsKnownCallee(called_func, funcs) == DictHas(funcs, called_func)

\* one turn of the inner loop over ast.walk(func_node)
CallVisit(graph, func_name, node, funcs) ==
    IF isinstance(node, "Call") /\ isinstance(node.kids[1], "Name")
       /\ IsKnownCallee(node.kids[1].name, funcs)
    THEN add_edge(graph, func_name, node.kids[1].name)
    ELSE graph

RECURSIVE CallLoop(_, _, _, _)
CallLoop(graph, func_name, nodes, funcs) ==
    IF Len(nodes) = 0 THEN graph
    ELSE CallLoop(CallVisit(graph, func_name, Head(nodes), funcs),
                  func_name, Tail(nodes), funcs)

\* one turn of the outer loop over funcs.items()
FuncVisit(graph, func_name, funcs) ==
    CallLoop(add_node(graph, func_name), func_name,
             ast_walk(DictGet(funcs, func_name)), funcs)

RECURSIVE FuncLoop(_, _, _)
FuncLoop(graph, names, funcs) ==
    IF Len(names) = 0 THEN graph
    ELSE FuncLoop(FuncVisit(graph, Head(names), funcs), Tail(names), funcs)

build_call_graph(source_code) ==
    LET tree == ast_parse(source_code) IN
    IF tree.raised = "none"
    THEN LET funcs == FuncsLoop(EmptyDict, ast_walk(tree.value))
         IN Ret(FuncLoop(DiGraph, funcs.keys, funcs))
    ELSE IF except_Exception(tree.raised) THEN Ret(DiGraph)
    ELSE Raise(tree.raised)

(***************************************************************************)
(* The inputs: every text of at most MaxItems items, and the named texts.  *)
(***************************************************************************)
Items == GoodItems \cup BadItems
Generated == UNION {[1..n -> Items] : n \in 0..MaxItems}
Scenarios ==
    { <<"def_f", "def_g", "def_f">>,
      <<"assign_x", "print_x", "incr_x">>,
      <<"blank", "blank", "blank", "big">>,
      <<"blank", "blank", "blank", "big_if">>,
      <<"def_h_rec", "def_h", "def_f">>,
      <<"nested", "def_g", "def_f">>,
      <<"def_g", "async_k", "def_f">> }
Sources == Generated \cup Scenarios
QueryNames == {"x", "X", "f", "obj", "not an identifier"}
Thresholds == 0..MaxThreshold

NoCall ==
    [fn |-> "none", var_name |-> "", length_threshold |-> 0,
     raised |-> "none", value |-> <<>>]
Done(fn, var_name, length_threshold, out) ==
    [fn |-> fn, var_name |-> var_name, length_threshold |-> length_threshold,
     raised |-> out.raised, value |-> out.value]

analysisVars == <<source, call>>
execVars ==
    <<sys_stdout, stdout_at_entry, pc, snippet, ip, old_stdout,
      redirected_output, output, raised>>
vars == <<source, call, frames, sys_stdout, stdout_at_entry, pc, snippet, ip,
          old_stdout, redirected_output, output, raised>>

Analyses ==
    {"parse_python_functions", "find_variable_usage", "find_long_functions",
     "build_call_graph"}
IdleFrame ==
    [pc |-> "idle", var_name |-> "", length_threshold |-> 0, todo |-> <<>>,
     acc |-> <<>>, names |-> <<>>, graph |-> DiGraph, ret |-> Ret(<<>>)]
NoFrames == [fn \in Analyses |-> IdleFrame]

\* no snippet is being executed
ExecIdle ==
    /\ pc = "idle"
    /\ snippet = <<>>
    /\ ip = 1
    /\ old_stdout = "unbound"
    /\ stdout_at_entry = "unbound"
    /\ redirected_output = <<>>
    /\ output = <<>>
    /\ raised = "none"

Init ==
    /\ source \in Sources
    /\ call = NoCall
    /\ frames = NoFrames
    /\ sys_stdout = "console"
    /\ ExecIdle

\* Tab 1: funcs = parse_python_functions(code)
ListFunctions ==
    /\ call' = Done("parse_python_functions", "", 0, parse_python_functions(source))
    /\ UNCHANGED <<source, frames, execVars>>

\* Tab 2: usage_lines = find_variable_usage(code, var_name.strip())
ShowUsage ==
    \E var_name \in QueryNames :
        /\ call' = Done("find_variable_usage", var_name, 0,
                        find_variable_usage(source, var_name))
        /\ UNCHANGED <<source, frames, execVars>>

\* Tab 3: long_funcs = find_long_functions(code, threshold)
AnalyzeLong ==
    \E threshold \in Thresholds :
        /\ call' = Done("find_long_functions", "", threshold,
                        find_long_functions(source, threshold))
        /\ UNCHANGED <<source, frames, execVars>>

\* Tab 4: graph = build_call_graph(code)
GenerateGraph ==
    /\ call' = Done("build_call_graph", "", 0, build_call_graph(source))
    /\ UNCHANGED <<source, frames, execVars>>

Next == ListFunctions \/ ShowUsage \/ AnalyzeLong \/ GenerateGraph

Spec == Init /\ [][Next]_vars

(***************************************************************************)
(* The four analyses step by step, one loop turn at a time, the calls of   *)
(* different analyses interleaved; each call has its own locals.           *)
(***************************************************************************)
StepSources ==
    { <<"def_f">>, <<"assign_x", "def_f">>, <<"syntax_error">> }
StepNames == {"x", "h"}
StepThresholds == 0..MaxStepThreshold

\* a list left by an earlier call of the function
KeptList(frame) == frame.acc

\* "funcs = [...]", "lines = []", "long_funcs = []": a new list per call
NewList(frame) == <<>>

\* the empty result of an analysis: [] or nx.DiGraph()
EmptyResult(fn) == IF fn = "build_call_graph" THEN DiGraph ELSE <<>>

\* the call of fn starts: "tree = ast.parse(source_code)" and the handler
Begin(fn, var_name, length_threshold) ==
    /\ frames[fn].pc \in {"idle", "done"}
    /\ LET tree == ast_parse(source)
           frame == [frames[fn] EXCEPT !.var_name = var_name,
                                       !.length_threshold = length_threshold,
                                       !.ret = Ret(<<>>)]
       IN frames' = [frames EXCEPT ![fn] =
              IF tree.raised = "none"
              THEN [frame EXCEPT !.pc = "walk", !.todo = <<tree.value>>,
                                 !.acc = IF fn = "build_call_graph"
                                         THEN EmptyDict ELSE NewList(frame),
                                 !.names = <<>>, !.graph = DiGraph]
              ELSE IF except_Exception(tree.raised)
              THEN [frame EXCEPT !.pc = "done", !.ret = Ret(EmptyResult(fn))]
              ELSE [frame EXCEPT !.pc = "done", !.ret = Raise(tree.raised)]]
    /\ UNCHANGED <<source, call, execVars>>

BeginCatalog == Begin("parse_python_functions", "", 0)
BeginUsage == \E var_name \in StepNames : Begin("find_variable_usage", var_name, 0)
BeginLong == \E threshold \in StepThresholds : Begin("find_long_functions", "", threshold)
BeginGraph == Begin("build_call_graph", "", 0)

\* what one turn of the loop of fn does with the node that ast.walk yields
Visit(fn, frame, node) ==
    CASE fn = "parse_python_functions" -> CatalogVisit(frame.acc, node)
      [] fn = "find_variable_usage" -> UsageVisit(frame.acc, node, frame.var_name)
      [] fn = "find_long_functions" -> LongVisit(frame.acc, node, frame.length_threshold)
      [] fn = "build_call_graph" -> FuncsVisit(frame.acc, node)

\* one turn of the loop over ast.walk(tree)
WalkStep(fn) ==
    /\ frames[fn].pc = "walk"
    /\ Len(frames[fn].todo) > 0
    /\ LET frame == frames[fn]
           node == Head(frame.todo)
       IN frames' = [frames EXCEPT ![fn] =
              [frame EXCEPT !.todo = Tail(frame.todo) \o IterChildNodes(node),
                            !.acc = Visit(fn, frame, node)]]
    /\ UNCHANGED <<source, call, execVars>>

\* the loop over ast.walk(tree) is over: return, or go on to funcs.items()
WalkEnd(fn) ==
    /\ frames[fn].pc = "walk"
    /\ Len(frames[fn].todo) = 0
    /\ LET frame == frames[fn] IN
       frames' = [frames EXCEPT ![fn] =
           CASE fn = "find_variable_usage" ->
                  [frame EXCEPT !.pc = "done", !.ret = Ret(sorted_set(frame.acc))]
             [] fn = "build_call_graph" ->
                  [frame EXCEPT !.pc = "items", !.names = frame.acc.keys]
             [] OTHER ->
                  [frame EXCEPT !.pc = "done", !.ret = Ret(frame.acc)]]
    /\ UNCHANGED <<source, call, execVars>>

\* build_call_graph: one turn of the loop over funcs.items()
ItemStep ==
    /\ frames["build_call_graph"].pc = "items"
    /\ Len(frames["build_call_graph"].names) > 0
    /\ LET frame == frames["build_call_graph"] IN
       frames' = [frames EXCEPT !["build_call_graph"] =
           [frame EXCEPT !.names = Tail(frame.names),
                         !.graph = FuncVisit(frame.graph, Head(frame.names),
                                             frame.acc)]]
    /\ UNCHANGED <<source, call, execVars>>

\* build_call_graph: return graph
ItemEnd ==
    /\ frames["build_call_graph"].pc = "items"
    /\ Len(frames["build_call_graph"].names) = 0
    /\ LET frame == frames["build_call_graph"] IN
       frames' = [frames EXCEPT !["build_call_graph"] =
           [frame EXCEPT !.pc = "done", !.ret = Ret(frame.graph)]]
    /\ UNCHANGED <<source, call, execVars>>

InitStep ==
    /\ source \in StepSources
    /\ call = NoCall
    /\ frames = NoFrames
    /\ sys_stdout = "console"
    /\ ExecIdle

NextStep ==
    \/ BeginCatalog \/ BeginUsage \/ BeginLong \/ BeginGraph
    \/ \E fn \in Analyses : WalkStep(fn)
    \/ \E fn \in Analyses : WalkEnd(fn)
    \/ ItemStep
    \/ ItemEnd

SpecStep == InitStep /\ [][NextStep]_vars

(***************************************************************************)
(* execute_code_snippet.  A snippet is a sequence of statements:           *)
(*   "print"      print("...")                                             *)
(*   "set_stdout" import sys; sys.stdout = <a stream of the snippet's own> *)
(*   "raise"      raise ValueError("...")                                  *)
(*   "exit"       raise SystemExit                                         *)
(***************************************************************************)
Statements == {"print", "set_stdout", "raise", "exit"}
Snippets == UNION {[1..n -> Statements] : n \in 0..MaxSnippet}
\* the streams sys.stdout may be when the function is entered
HostStreams == {"console", "host_stream"}

\* a restore of the interpreter's first stream, sys.__stdout__
restore_dunder_stdout(saved) == "console"

\* "finally: sys.stdout = old_stdout": the stream that is put back
restore_stdout(saved) == saved

\* Tab 5: output = execute_code_snippet(snippet), up to the try statement:
\* old_stdout = sys.stdout; redirected_output = sys.stdout = io.StringIO()
Enter ==
    /\ pc = "idle"
    /\ \E text \in Snippets : snippet' = text
    /\ ip' = 1
    /\ stdout_at_entry' = sys_stdout
    /\ old_stdout' = sys_stdout
    /\ sys_stdout' = "StringIO"
    /\ redirected_output' = <<>>
    /\ output' = <<>>
    /\ raised' = "none"
    /\ pc' = "exec"
    /\ UNCHANGED <<source, call, frames>>

\* exec(snippet, {}): the next statement of the snippet
ExecStatement ==
    /\ pc = "exec"
    /\ ip <= Len(snippet)
    /\ ip' = ip + 1
    /\ CASE snippet[ip] = "print" ->
              /\ redirected_output' =
                     IF sys_stdout = "StringIO"
                     THEN Append(redirected_output, "text") ELSE redirected_output
              /\ UNCHANGED <<sys_stdout, raised, pc>>
         [] snippet[ip] = "set_stdout" ->
              /\ sys_stdout' = "snippet_stream"
              /\ UNCHANGED <<redirected_output, raised, pc>>
         [] snippet[ip] = "raise" ->
              /\ raised' = "ValueError"
              /\ pc' = "except"
              /\ UNCHANGED <<sys_stdout, redirected_output>>
         [] snippet[ip] = "exit" ->
              /\ raised' = "SystemExit"
              /\ pc' = "except"
              /\ UNCHANGED <<sys_stdout, redirected_output>>
    /\ UNCHANGED <<source, call, frames, snippet, stdout_at_entry, old_stdout, output>>

\* exec returned: output = redirected_output.getvalue()
ExecReturns ==
    /\ pc = "exec"
    /\ ip > Len(snippet)
    /\ output' = redirected_output
    /\ pc' = "finally"
    /\ UNCHANGED <<source, call, frames, sys_stdout, stdout_at_entry, snippet, ip,
                   old_stdout, redirected_output, raised>>

\* except Exception as e: output = f"Error: {e}"; anything else passes
Except ==
    /\ pc = "except"
    /\ IF except_Exception(raised)
       THEN output' = <<"Error: ", raised>> /\ raised' = "none"
       ELSE UNCHANGED <<output, raised>>
    /\ pc' = "finally"
    /\ UNCHANGED <<source, call, frames, sys_stdout, stdout_at_entry, snippet, ip,
                   old_stdout, redirected_output>>

\* finally: sys.stdout = old_stdout
Finally ==
    /\ pc = "finally"
    /\ sys_stdout' = restore_stdout(old_stdout)
    /\ pc' = IF raised = "none" THEN "returned" ELSE "propagated"
    /\ UNCHANGED <<source, call, frames, stdout_at_entry, snippet, ip, old_stdout,
                   redirected_output, output, raised>>

\* the caller has the output (or the exception); the next run may start,
\* with sys.stdout as this call left it
Leave ==
    /\ pc \in {"returned", "propagated"}
    /\ pc' = "idle"
    /\ UNCHANGED <<source, call, frames, sys_stdout, stdout_at_entry, snippet, ip,
                   old_stdout, redirected_output, output, raised>>

InitExec ==
    /\ source = <<>>
    /\ call = NoCall
    /\ frames = NoFrames
    /\ sys_stdout \in HostStreams
    /\ ExecIdle

NextExec == Enter \/ ExecStatement \/ ExecReturns \/ Except \/ Finally \/ Leave

SpecExec == InitExec /\ [][NextExec]_vars

(***************************************************************************)
(* What the claims are stated against: the tree of the source read in      *)
(* source order (pre-order), independently of ast.walk.                    *)
(***************************************************************************)
Parses(text) == ast_parse(text).raised = "none"
Tree(text) == ast_parse(text).value

RECURSIVE PreOrderSeq(_, _)
PreOrderSeq(nodes, depth) ==
    IF Len(nodes) = 0 THEN <<>>
    ELSE <<[node |-> Head(nodes), depth |-> depth]>>
         \o PreOrderSeq(IterChildNodes(Head(nodes)), depth + 1)
         \o PreOrderSeq(Tail(nodes), depth)
\* the nodes under (and with) a node, in source order, each with its depth
PreOrder(node) == PreOrderSeq(<<node>>, 0)

IsSyncDef(e) == e.node.kind = "FunctionDef"
IsAnyDef(e) == e.node.kind \in {"FunctionDef", "AsyncFunctionDef"}
NamesOf(entries) == [i \in 1..Len(entries) |-> entries[i].node.name]
CountOf(s, x) == Cardinality({i \in 1..Len(s) : s[i] = x})

\* the nodes of a pre-order listing, level by level from depth d on
RECURSIVE ByLevel(_, _)
ByLevel(entries, d) ==
    LET AtDepth(e) == e.depth = d
        Deeper(e) == e.depth > d
    IN IF Len(SelectSeq(entries, Deeper)) = 0 THEN SelectSeq(entries, AtDepth)
       ELSE SelectSeq(entries, AtDepth) \o ByLevel(entries, d + 1)
LevelOrder(node) == ByLevel(PreOrder(node), 0)

\* the lines first..last of the body of a function definition
BodySpan(node) ==
    node.body[Len(node.body)].end_lineno - node.body[1].lineno + 1

Called(fn) == call.fn = fn /\ Parses(source)

(***************************************************************************)
(* C1: for every source that parses, the catalog has exactly one entry per *)
(* function definition of the source (nested ones and every kind of        *)
(* definition counted), and as many entries of a name as the source has    *)
(* definitions of that name.                                               *)
(***************************************************************************)
C1_OneEntryPerDefinition ==
    Called("parse_python_functions") =>
        LET defs == NamesOf(SelectSeq(PreOrder(Tree(source)), IsAnyDef)) IN
        /\ Len(call.value) = Len(defs)
        /\ \A name \in Elems(defs) : CountOf(call.value, name) = CountOf(defs, name)

(***************************************************************************)
(* C2: on a source that fails to parse, each of the four analyses returns  *)
(* its empty result and raises nothing, whatever the name or threshold.    *)
(***************************************************************************)
C2_ParseFailureGivesEmpty ==
    (call.fn # "none" /\ ~Parses(source)) =>
        /\ call.raised = "none"
        /\ IF call.fn = "build_call_graph"
           THEN call.value.nodes = {} /\ call.value.edges = {}
           ELSE Len(call.value) = 0

C2_Witness ==
    /\ call.fn = "find_long_functions"
    /\ ast_parse(source).raised = "MemoryError"
    /\ call.raised = "none"

(***************************************************************************)
(* C3: the graph has the edge A -> B exactly when some definition named A  *)
(* (each one, also when A is defined more than once) has in its subtree a  *)
(* call whose callee is the bare name B, and B is a catalog name.          *)
(***************************************************************************)
BareCallees(node) ==
    {e.node.kids[1].name : e \in
        {c \in Elems(PreOrder(node)) :
            c.node.kind = "Call" /\ c.node.kids[1].kind = "Name"}}

C3_EdgeIffBareCall ==
    Called("build_call_graph") =>
        LET defs == Elems(SelectSeq(PreOrder(Tree(source)), IsSyncDef))
            catalog == Elems(parse_python_functions(source).value)
        IN call.value.edges =
               {e \in catalog \X catalog :
                   \E d \in defs : d.node.name = e[1] /\ e[2] \in BareCallees(d.node)}

(***************************************************************************)
(* C4: the nodes of the graph are catalog names, both ends of every edge   *)
(* are nodes, and an empty catalog gives the graph without nodes and       *)
(* edges; no error is raised.                                              *)
(***************************************************************************)
C4_NodesWithinCatalog ==
    call.fn = "build_call_graph" =>
        LET catalog == Elems(parse_python_functions(source).value) IN
        /\ call.raised = "none"
        /\ call.value.nodes \subseteq catalog
        /\ \A e \in call.value.edges :
               e[1] \in call.value.nodes /\ e[2] \in call.value.nodes
        /\ catalog = {} => call.value.nodes = {} /\ call.value.edges = {}

C4_Witness ==
    /\ call.fn = "build_call_graph"
    /\ source = <<"def_g", "print_x">>
    /\ call.value.nodes = {"g"}
    /\ call.value.edges = {}

(***************************************************************************)
(* C5: the usage lines are strictly ascending and are exactly the lines of *)
(* the Name nodes whose id is the queried name; arguments, string literals *)
(* and attribute names with that text give no line, and a query without a  *)
(* match gives the empty list.                                             *)
(***************************************************************************)
StrictlyAscending(s) == \A i \in 1..Len(s) : \A j \in 1..Len(s) : i < j => s[i] < s[j]

C5_UsageLines ==
    Called("find_variable_usage") =>
        /\ call.raised = "none"
        /\ StrictlyAscending(call.value)
        /\ Elems(call.value) =
               {e.node.lineno : e \in
                   {n \in Elems(PreOrder(Tree(source))) :
                       n.node.kind = "Name" /\ n.node.name = call.var_name}}

C5_Witness ==
    /\ call.fn = "find_variable_usage"
    /\ call.var_name = "x"
    /\ source = <<"method_call", "incr_x">>
    /\ call.value = <<4>>

(***************************************************************************)
(* C6: a function is reported exactly when the number of lines of its      *)
(* span, last line - first line + 1, exceeds the threshold, and the pair   *)
(* reported carries that number, whatever the last statement looks like    *)
(* (the span taken here is that of the body, as in the example of lines 5  *)
(* to 14 giving 10).                                                       *)
(***************************************************************************)
C6_LengthIsLineSpan ==
    Called("find_long_functions") =>
        LET defs == Elems(SelectSeq(PreOrder(Tree(source)), IsSyncDef)) IN
        /\ \A d \in defs :
               (BodySpan(d.node) > call.length_threshold)
                   <=> (<<d.node.name, BodySpan(d.node)>> \in Elems(call.value))
        /\ \A p \in Elems(call.value) :
               \E d \in defs : p = <<d.node.name, BodySpan(d.node)>>

(***************************************************************************)
(* C7 as stated: the catalog lists the definitions in pre-order, and the   *)
(* length report keeps that order.                                         *)
(***************************************************************************)
Reported(entries, threshold) ==
    LET Long(e) == FuncLen(e.node) > threshold
        kept == SelectSeq(entries, Long)
    IN [i \in 1..Len(kept) |-> <<kept[i].node.name, FuncLen(kept[i].node)>>]

C7_PreOrderCatalog ==
    /\ Called("parse_python_functions") =>
           call.value = NamesOf(SelectSeq(PreOrder(Tree(source)), IsSyncDef))
    /\ Called("find_long_functions") =>
           call.value = Reported(SelectSeq(PreOrder(Tree(source)), IsSyncDef),
                                 call.length_threshold)

(***************************************************************************)
(* C7 as amended: the catalog lists the definitions level by level         *)
(* (breadth first): a definition nearer the root comes before every deeper *)
(* one, so an enclosing function comes before the functions nested in it,  *)
(* and definitions of one depth keep their source order; the length report *)
(* keeps the same order.                                                   *)
(***************************************************************************)
C7_LevelOrderCatalog ==
    /\ Called("parse_python_functions") =>
           call.value = NamesOf(SelectSeq(LevelOrder(Tree(source)), IsSyncDef))
    /\ Called("find_long_functions") =>
           call.value = Reported(SelectSeq(LevelOrder(Tree(source)), IsSyncDef),
                                 call.length_threshold)

C7_Witness ==
    /\ call.fn = "parse_python_functions"
    /\ source = <<"nested", "def_f">>
    /\ call.value = <<"a", "f", "b">>

(***************************************************************************)
(* C8 as stated: for no threshold >= 0 is a function of length 1 reported. *)
(***************************************************************************)
C8_LengthOneNeverReported ==
    (Called("find_long_functions") /\ call.length_threshold >= 0) =>
        \A i \in 1..Len(call.value) : call.value[i][2] # 1

(***************************************************************************)
(* C8 as amended: for no threshold >= 1 is a function of length 1          *)
(* reported; at threshold 0 every function whose body is one line long is  *)
(* reported, with length 1.                                                *)
(***************************************************************************)
C8_LengthOneReportedOnlyAtZero ==
    Called("find_long_functions") =>
        /\ call.length_threshold >= 1 =>
               \A i \in 1..Len(call.value) : call.value[i][2] # 1
        /\ call.length_threshold = 0 =>
               \A d \in Elems(SelectSeq(PreOrder(Tree(source)), IsSyncDef)) :
                   BodySpan(d.node) = 1 =>
                       <<d.node.name, 1>> \in Elems(call.value)

C8_Witness ==
    /\ call.fn = "find_long_functions"
    /\ call.length_threshold = 0
    /\ source = <<"def_f">>
    /\ call.value = << <<"f", 1>> >>

(***************************************************************************)
(* C9: in every order and interleaving of the calls of the four analyses   *)
(* on one source, each call returns what the analysis returns when it runs *)
(* alone on that source with the same arguments.                           *)
(***************************************************************************)
Alone(fn, frame) ==
    CASE fn = "parse_python_functions" -> parse_python_functions(source)
      [] fn = "find_variable_usage" -> find_variable_usage(source, frame.var_name)
      [] fn = "find_long_functions" ->
             find_long_functions(source, frame.length_threshold)
      [] fn = "build_call_graph" -> build_call_graph(source)

C9_SameResultAsAlone ==
    \A fn \in Analyses :
        frames[fn].pc = "done" => frames[fn].ret = Alone(fn, frames[fn])

C9_Witness ==
    /\ source = <<"assign_x", "def_f">>
    /\ frames["find_variable_usage"].pc = "done"
    /\ frames["find_variable_usage"].var_name = "x"
    /\ frames["find_variable_usage"].ret = Ret(<<1>>)
    /\ frames["find_long_functions"].pc = "walk"
    /\ Len(frames["find_long_functions"].acc) = 1
    /\ frames["build_call_graph"].pc = "items"
    /\ frames["parse_python_functions"].pc = "done"

(***************************************************************************)
(* C10 as stated: when execute_code_snippet is left, by return or by an    *)
(* exception that passes, sys.stdout is the stream it was at entry, also   *)
(* when the snippet assigned sys.stdout; and while the snippet runs,       *)
(* sys.stdout is the capture buffer.                                       *)
(***************************************************************************)
C10_StdoutAsFound ==
    /\ pc \in {"returned", "propagated"} => sys_stdout = stdout_at_entry
    /\ pc = "exec" => sys_stdout = "StringIO"

(***************************************************************************)
(* C10 as amended: when execute_code_snippet is left, by return or by an   *)
(* exception that passes, sys.stdout is the stream it was at entry, also   *)
(* when the snippet assigned sys.stdout; and while the snippet runs,       *)
(* sys.stdout is the capture buffer unless and until sys.stdout is         *)
(* assigned again during the run, which the snippet itself can do.         *)
(***************************************************************************)
SnippetAssignedStdout == \E i \in 1..(ip - 1) : snippet[i] = "set_stdout"

C10_StdoutRestored ==
    /\ pc \in {"returned", "propagated"} => sys_stdout = stdout_at_entry
    /\ (pc = "exec" /\ ~SnippetAssignedStdout) => sys_stdout = "StringIO"

C10_Witness ==
    /\ pc = "propagated"
    /\ raised = "SystemExit"
    /\ SnippetAssignedStdout
    /\ stdout_at_entry = "host_stream"
    /\ sys_stdout = "host_stream"

====
